---- MODULE Spec2Model ----
(***************************************************************************)
(* Model of scrape_matilda_to_ics.py: Matilda menu page -> iCal file.      *)
(*                                                                         *)
(* Text is modelled as a sequence of one-character strings, a calendar     *)
(* date as its proleptic Gregorian ordinal (date.toordinal()), a JSON      *)
(* value as a record [t, k, c, s]:                                         *)
(*   t = "d"  mapping, keys k (in document order), values c                *)
(*   t = "l"  array, elements c                                            *)
(*   t = "s"  string with text s                                           *)
(*   t = "n"  null                                                         *)
(***************************************************************************)
EXTENDS Integers, Sequences, FiniteSets, TLC

VARIABLES pc,
          today, start, end,          \* week selection
          base_url, url,              \* URL rewriting
          next_data, found,           \* payload tree, candidate arrays
          pos, entries, merged, daily,\* extract_entries working state
          daily_meals, ics,           \* build_ics input and output
          environ, html, exit_code, out_file, cal_name   \* main

vars == <<pc, today, start, end, base_url, url, next_data, found, pos,
          entries, merged, daily, daily_meals, ics, environ, html,
          exit_code, out_file, cal_name>>

weekVars == <<today, start, end>>
urlVars  == <<base_url, url>>
walkVars == <<next_data, found>>
extrVars == <<pos, entries, merged, daily>>
icsVars  == <<daily_meals, ics>>
mainVars == <<environ, html, exit_code, out_file, cal_name>>

----------------------------------------------------------------------------
(* Bounds of the model *)

\* number of consecutive days the model draws dates from
NumDays == 70
\* nesting depth of the payload trees below the root
MaxDepth == 3
\* number of fields in the query of the source URL
MaxQuery == 3
\* number of elements of a meal container, and of meals of a day
MaxMeals == 2

----------------------------------------------------------------------------
(* Text *)

None == [t |-> "n", k |-> <<>>, c |-> <<>>, s |-> <<>>]
NoDate == 0

Upper == <<"A","B","C","D","E","F","G","H","I","J","K","L","M",
           "N","O","P","Q","R","S","T","U","V","W","X","Y","Z">>
Lower == <<"a","b","c","d","e","f","g","h","i","j","k","l","m",
           "n","o","p","q","r","s","t","u","v","w","x","y","z">>
Digits == <<"0","1","2","3","4","5","6","7","8","9">>

IsSpace(ch) == ch \in {" ", "\t", "\n", "\r"}
IsDigit(ch) == \E i \in 1..10 : Digits[i] = ch
DigitVal(ch) == (CHOOSE i \in 1..10 : Digits[i] = ch) - 1

\* str.lower() of one character
lowerChar(ch) ==
    IF \E i \in 1..26 : Upper[i] = ch
    THEN Lower[CHOOSE i \in 1..26 : Upper[i] = ch]
    ELSE ch

\* str.lower()
lower(s) == [i \in 1..Len(s) |-> lowerChar(s[i])]

RECURSIVE lstrip(_)
lstrip(s) == IF s # <<>> /\ IsSpace(Head(s)) THEN lstrip(Tail(s)) ELSE s

RECURSIVE rstrip(_)
rstrip(s) ==
    IF s # <<>> /\ IsSpace(s[Len(s)]) THEN rstrip(SubSeq(s, 1, Len(s) - 1)) ELSE s

\* str.strip()
strip(s) == rstrip(lstrip(s))

\* re.sub(r"\s+", " ", t)
RECURSIVE collapse_ws(_)
collapse_ws(t) ==
    IF t = <<>> THEN <<>>
    ELSE IF IsSpace(Head(t))
         THEN <<" ">> \o collapse_ws(lstrip(t))
         ELSE <<Head(t)>> \o collapse_ws(Tail(t))

\* s[:n]
Prefix(s, n) == SubSeq(s, 1, IF Len(s) < n THEN Len(s) ELSE n)

\* `x in lst` for a Python list
InList(x, lst) == \E i \in 1..Len(lst) : lst[i] = x

\* re.search of a literal pattern: pat occurs somewhere in s
Contains(s, pat) ==
    \E i \in 0..(Len(s) - Len(pat)) : SubSeq(s, i + 1, i + Len(pat)) = pat

----------------------------------------------------------------------------
(* Dates: datetime.date as an ordinal, 0001-01-01 = 1 (a Monday) *)

is_leap(y) == y % 4 = 0 /\ (y % 100 # 0 \/ y % 400 = 0)

days_in_month(y, m) ==
    IF m = 2 THEN (IF is_leap(y) THEN 29 ELSE 28)
    ELSE IF m \in {4, 6, 9, 11} THEN 30 ELSE 31

days_before_year(y) ==
    LET p == y - 1 IN p * 365 + (p \div 4) - (p \div 100) + (p \div 400)

RECURSIVE days_before_month(_, _)
days_before_month(y, m) ==
    IF m = 1 THEN 0 ELSE days_before_month(y, m - 1) + days_in_month(y, m - 1)

ymd2ord(y, m, d) == days_before_year(y) + days_before_month(y, m) + d

\* date.weekday(): 0 = Monday ... 6 = Sunday
weekday(d) == (d + 6) % 7

\* the (year, month, day) of an ordinal
ord2ymd(n) ==
    LET y  == CHOOSE yy \in (n \div 366)..(n \div 365 + 1) :
                  days_before_year(yy) < n /\ n <= days_before_year(yy + 1)
        m  == CHOOSE mm \in 1..12 :
                  /\ ymd2ord(y, mm, 1) <= n
                  /\ n < ymd2ord(y, mm, 1) + days_in_month(y, mm)
    IN <<y, m, n - ymd2ord(y, m, 1) + 1>>

\* n written with w decimal digits (zero padded)
RECURSIVE Dec(_, _)
Dec(n, w) == IF w = 0 THEN <<>> ELSE Dec(n \div 10, w - 1) \o <<Digits[(n % 10) + 1]>>

\* the number written by a string of digits
RECURSIVE Num(_)
Num(s) == IF s = <<>> THEN 0 ELSE Num(SubSeq(s, 1, Len(s) - 1)) * 10 + DigitVal(s[Len(s)])

AllDigits(s) == \A i \in 1..Len(s) : IsDigit(s[i])

\* date.isoformat(): YYYY-MM-DD
isoformat(d) ==
    LET t == ord2ymd(d) IN Dec(t[1], 4) \o <<"-">> \o Dec(t[2], 2) \o <<"-">> \o Dec(t[3], 2)

\* date.fromisoformat(s): the ordinal, or NoDate where Python raises ValueError
fromisoformat(s) ==
    IF /\ Len(s) = 10
       /\ s[5] = "-" /\ s[8] = "-"
       /\ AllDigits(SubSeq(s, 1, 4)) /\ AllDigits(SubSeq(s, 6, 7))
       /\ AllDigits(SubSeq(s, 9, 10))
    THEN LET y == Num(SubSeq(s, 1, 4))
             m == Num(SubSeq(s, 6, 7))
             d == Num(SubSeq(s, 9, 10))
         IN IF y >= 1 /\ m \in 1..12 /\ d >= 1 /\ d <= days_in_month(y, m)
            THEN ymd2ord(y, m, d) ELSE NoDate
    ELSE NoDate

\* the first day the model draws dates from: Monday 2024-06-03
FirstDay == ymd2ord(2024, 6, 3)
Days == FirstDay..(FirstDay + NumDays - 1)

----------------------------------------------------------------------------
(* Week selection *)

week_bounds_mo_su(d) ==
    LET monday == d - weekday(d)
        sunday == monday + 6
    IN <<monday, sunday>>

\* mutant: Saturday is taken for a day of the current week
target_week_base_sat(td) ==
    LET wd == weekday(td) IN IF wd >= 6 THEN td + (7 - wd) ELSE td

target_week_base(td) ==
    LET wd == weekday(td) IN IF wd >= 5 THEN td + (7 - wd) ELSE td

target_week_bounds(td) == week_bounds_mo_su(target_week_base(td))

----------------------------------------------------------------------------
(* URL rewriting.  A URL is the record urlparse() returns; the components  *)
(* other than the query are opaque.  The query is the sequence of its      *)
(* name=value fields; names and values are drawn from unreserved           *)
(* characters, for which unquoting and quote_plus change nothing.          *)

\* parse_qs(qs): a dict (in insertion order) name -> list of values; a field
\* with a blank value is left out (keep_blank_values=False)
RECURSIVE parse_qs_from(_, _, _)
parse_qs_from(qs, i, acc) ==
    IF i > Len(qs) THEN acc
    ELSE LET name  == qs[i][1]
             value == qs[i][2]
         IN IF value = <<>> THEN parse_qs_from(qs, i + 1, acc)
            ELSE IF \E j \in 1..Len(acc) : acc[j][1] = name
                 THEN parse_qs_from(qs, i + 1,
                        [j \in 1..Len(acc) |->
                            IF acc[j][1] = name
                            THEN <<name, Append(acc[j][2], value)>>
                            ELSE acc[j]])
                 ELSE parse_qs_from(qs, i + 1, Append(acc, <<name, <<value>>>>))

parse_qs(qs) == parse_qs_from(qs, 1, <<>>)

\* q[name] = val on an insertion-ordered dict
dict_set(q, name, val) ==
    IF \E j \in 1..Len(q) : q[j][1] = name
    THEN [j \in 1..Len(q) |-> IF q[j][1] = name THEN <<name, val>> ELSE q[j]]
    ELSE Append(q, <<name, val>>)

\* urlencode({k: v[0] for k, v in q.items()})
urlencode_first(q) == [j \in 1..Len(q) |-> <<q[j][1], q[j][2][1]>>]

add_week_query_to_week_url(u, s, e) ==
    LET q0 == parse_qs(u.query)
        q1 == dict_set(q0, "startDate", <<isoformat(s)>>)
        q2 == dict_set(q1, "endDate", <<isoformat(e)>>)
    IN [scheme |-> u.scheme, netloc |-> u.netloc, path |-> u.path,
        params |-> u.params, query |-> urlencode_first(q2),
        fragment |-> u.fragment]

----------------------------------------------------------------------------
(* JSON values *)

Str(s)    == [t |-> "s", k |-> <<>>, c |-> <<>>, s |-> s]
Arr(c)    == [t |-> "l", k |-> <<>>, c |-> c, s |-> <<>>]
Obj(k, c) == [t |-> "d", k |-> k, c |-> c, s |-> <<>>]

\* `name in obj` for a mapping
Has(obj, name) == \E i \in 1..Len(obj.k) : obj.k[i] = name
\* obj[name]
Get(obj, name) == obj.c[CHOOSE i \in 1..Len(obj.k) : obj.k[i] = name]

\* truth value of a JSON value in Python
Truthy(v) ==
    CASE v.t = "s" -> v.s # <<>>
      [] v.t = "l" -> v.c # <<>>
      [] v.t = "d" -> v.k # <<>>
      [] v.t = "n" -> FALSE

\* str(v) of a string or of None (the repr of a container is not modelled:
\* date and text fields are drawn from strings and null)
py_str(v) ==
    CASE v.t = "s" -> v.s
      [] v.t = "n" -> <<"N", "o", "n", "e">>

----------------------------------------------------------------------------
(* Menu-block finder *)

KeyPatterns == { <<"m","e","a","l">>, <<"m","e","n","u">>,
                 <<"d","i","s","h">>, <<"c","o","u","r","s","e">> }

\* re.search(r"(meal|menu|dish|course)", k, re.I)
key_matches(k) == \E pat \in KeyPatterns : Contains(lower(k), pat)

RECURSIVE walk(_)
RECURSIVE walk_dict(_, _)
RECURSIVE walk_list(_, _)

\* mutant: a matched array is reported and searched as well
walk_item_descend(k, v) ==
    IF v.t = "l" /\ key_matches(k) THEN <<v>> \o walk(v) ELSE walk(v)

\* one (k, v) of a mapping
walk_item(k, v) ==
    IF v.t = "l" /\ key_matches(k) THEN <<v>> ELSE walk(v)

walk_dict(obj, i) ==
    IF i > Len(obj.k) THEN <<>>
    ELSE walk_item(obj.k[i], obj.c[i]) \o walk_dict(obj, i + 1)

walk_list(obj, i) ==
    IF i > Len(obj.c) THEN <<>>
    ELSE walk(obj.c[i]) \o walk_list(obj, i + 1)

walk(obj) ==
    IF obj.t = "d" THEN walk_dict(obj, 1)
    ELSE IF obj.t = "l" THEN walk_list(obj, 1)
    ELSE <<>>

----------------------------------------------------------------------------
(* Entry extractor *)

K_date        == <<"d","a","t","e">>
K_day         == <<"d","a","y">>
K_servedDate  == <<"s","e","r","v","e","d","D","a","t","e">>
K_menuDate    == <<"m","e","n","u","D","a","t","e">>
K_meals       == <<"m","e","a","l","s">>
K_dishes      == <<"d","i","s","h","e","s">>
K_courses     == <<"c","o","u","r","s","e","s">>
K_menuRows    == <<"m","e","n","u","R","o","w","s">>
K_items       == <<"i","t","e","m","s">>
K_name        == <<"n","a","m","e">>
K_title       == <<"t","i","t","l","e">>
K_dishName    == <<"d","i","s","h","N","a","m","e">>
K_courseName  == <<"c","o","u","r","s","e","N","a","m","e">>
K_label       == <<"l","a","b","e","l">>
K_description == <<"d","e","s","c","r","i","p","t","i","o","n">>
K_text        == <<"t","e","x","t">>

DateKeys      == <<K_date, K_day, K_servedDate, K_menuDate>>
ContainerKeys == <<K_meals, K_dishes, K_courses, K_menuRows, K_items>>
ElemNameKeys  == <<K_name, K_title, K_dishName, K_courseName, K_label,
                   K_description, K_text>>
ItemNameKeys  == <<K_name, K_title, K_label, K_description, K_text>>

\* mutant: the loop ends at the first field that is present and truthy
RECURSIVE item_date_from_break(_, _)
item_date_from_break(item, i) ==
    IF i > Len(DateKeys) THEN NoDate
    ELSE LET dk == DateKeys[i] IN
         IF Has(item, dk) /\ Truthy(Get(item, dk))
         THEN fromisoformat(Prefix(py_str(Get(item, dk)), 10))
         ELSE item_date_from_break(item, i + 1)

\* the date loop: the first field that is present, truthy and parses
RECURSIVE item_date_from(_, _)
item_date_from(item, i) ==
    IF i > Len(DateKeys) THEN NoDate
    ELSE LET dk == DateKeys[i] IN
         IF Has(item, dk) /\ Truthy(Get(item, dk))
         THEN LET d == fromisoformat(Prefix(py_str(Get(item, dk)), 10))
              IN IF d # NoDate THEN d ELSE item_date_from(item, i + 1)
         ELSE item_date_from(item, i + 1)

item_date(item) == item_date_from(item, 1)

\* if s and s not in texts: texts.append(s)
append_text(texts, s) ==
    IF s # <<>> /\ ~InList(s, texts) THEN Append(texts, s) ELSE texts

\* mutant: the loop ends at the first name field that has a value
RECURSIVE name_texts_break(_, _, _, _)
name_texts_break(texts, m, nks, i) ==
    IF i > Len(nks) THEN texts
    ELSE LET nk == nks[i] IN
         IF Has(m, nk) /\ Truthy(Get(m, nk))
         THEN append_text(texts, strip(py_str(Get(m, nk))))
         ELSE name_texts_break(texts, m, nks, i + 1)

\* the loop over the name fields nks of the mapping m
RECURSIVE name_texts(_, _, _, _)
name_texts(texts, m, nks, i) ==
    IF i > Len(nks) THEN texts
    ELSE LET nk == nks[i] IN
         IF Has(m, nk) /\ Truthy(Get(m, nk))
         THEN name_texts(append_text(texts, strip(py_str(Get(m, nk)))), m, nks, i + 1)
         ELSE name_texts(texts, m, nks, i + 1)

\* one element m of a meal container
elem_texts(texts, m) ==
    IF m.t = "d" THEN name_texts(texts, m, ElemNameKeys, 1)
    ELSE IF m.t = "s" THEN append_text(texts, strip(m.s))
    ELSE texts

RECURSIVE elems_texts(_, _, _)
elems_texts(texts, lst, i) ==
    IF i > Len(lst) THEN texts
    ELSE elems_texts(elem_texts(texts, lst[i]), lst, i + 1)

\* the loop over the meal container fields of the item
RECURSIVE containers_texts(_, _, _)
containers_texts(texts, item, i) ==
    IF i > Len(ContainerKeys) THEN texts
    ELSE LET mk == ContainerKeys[i] IN
         IF Has(item, mk) /\ Get(item, mk).t = "l"
         THEN containers_texts(elems_texts(texts, Get(item, mk).c, 1), item, i + 1)
         ELSE containers_texts(texts, item, i + 1)

item_texts(item) ==
    name_texts(containers_texts(<<>>, item, 1), item, ItemNameKeys, 1)

\* the body of `for item in lst`
item_entry(ents, item) ==
    IF item.t # "d" THEN ents
    ELSE LET d     == item_date(item)
             texts == item_texts(item)
         IN IF d # NoDate /\ texts # <<>> THEN Append(ents, <<d, texts>>) ELSE ents

\* the items of all candidate arrays, in processing order
RECURSIVE all_items(_)
all_items(lists) ==
    IF lists = <<>> THEN <<>> ELSE Head(lists).c \o all_items(Tail(lists))

\* mutant: the text is looked up as it was before the whitespace is collapsed
RECURSIVE merge_texts_raw(_, _, _)
merge_texts_raw(acc, lst, i) ==
    IF i > Len(lst) THEN acc
    ELSE LET t == collapse_ws(lst[i]) IN
         merge_texts_raw(IF t # <<>> /\ ~InList(lst[i], acc) THEN Append(acc, t) ELSE acc,
                         lst, i + 1)

\* for t in lst: normalise, append to merged[d] unless present
RECURSIVE merge_texts(_, _, _)
merge_texts(acc, lst, i) ==
    IF i > Len(lst) THEN acc
    ELSE LET t == collapse_ws(lst[i]) IN
         merge_texts(IF t # <<>> /\ ~InList(t, acc) THEN Append(acc, t) ELSE acc,
                     lst, i + 1)

\* the body of `for d, lst in entries`; merged is a dict in insertion order
merge_entry(mg, e) ==
    LET d  == e[1]
        m0 == IF \E j \in 1..Len(mg) : mg[j][1] = d THEN mg ELSE Append(mg, <<d, <<>>>>)
    IN [j \in 1..Len(m0) |->
           IF m0[j][1] = d THEN <<d, merge_texts(m0[j][2], e[2], 1)>> ELSE m0[j]]

\* sorted(merged.items(), key=lambda x: x[0])
RECURSIVE sorted_by_date(_)
sorted_by_date(mg) ==
    IF mg = <<>> THEN <<>>
    ELSE LET i == CHOOSE i \in 1..Len(mg) :
                     /\ \A j \in 1..Len(mg) : mg[i][1] <= mg[j][1]
                     /\ \A j \in 1..(i - 1) : mg[j][1] # mg[i][1]
         IN <<mg[i]>> \o sorted_by_date(SubSeq(mg, 1, i - 1) \o SubSeq(mg, i + 1, Len(mg)))

RECURSIVE fold_items(_, _, _)
fold_items(ents, items, i) ==
    IF i > Len(items) THEN ents ELSE fold_items(item_entry(ents, items[i]), items, i + 1)

RECURSIVE fold_merge(_, _, _)
fold_merge(mg, ents, i) ==
    IF i > Len(ents) THEN mg ELSE fold_merge(merge_entry(mg, ents[i]), ents, i + 1)

extract_entries(tree) ==
    sorted_by_date(fold_merge(<<>>, fold_items(<<>>, all_items(walk(tree)), 1), 1))

----------------------------------------------------------------------------
(* Calendar renderer *)

\* mutant: the key of a meal is the meal as written, not in lower case
RECURSIVE clean_from_cased(_, _, _)
clean_from_cased(meals, i, st) ==
    IF i > Len(meals) THEN st[1]
    ELSE LET m2  == strip(meals[i])
             key == m2
         IN IF m2 = <<>> \/ key \in st[2]
            THEN clean_from_cased(meals, i + 1, st)
            ELSE clean_from_cased(meals, i + 1, <<Append(st[1], m2), st[2] \cup {key}>>)

\* the cleaning loop of build_ics: st = <<clean, seen>>
RECURSIVE clean_from(_, _, _)
clean_from(meals, i, st) ==
    IF i > Len(meals) THEN st[1]
    ELSE LET m2  == strip(meals[i])
             key == lower(m2)
         IN IF m2 = <<>> \/ key \in st[2]
            THEN clean_from(meals, i + 1, st)
            ELSE clean_from(meals, i + 1, <<Append(st[1], m2), st[2] \cup {key}>>)

clean_meals(meals) == clean_from(meals, 1, <<<<>>, {}>>)

Backslash_n == <<"\\", "n">>

\* "\\n".join(clean)
RECURSIVE join(_)
join(lst) ==
    IF lst = <<>> THEN <<>>
    ELSE IF Len(lst) = 1 THEN lst[1]
    ELSE lst[1] \o Backslash_n \o join(Tail(lst))

\* .replace("\n", "\\n")
RECURSIVE replace_newlines(_)
replace_newlines(s) ==
    IF s = <<>> THEN <<>>
    ELSE (IF Head(s) = "\n" THEN Backslash_n ELSE <<Head(s)>>) \o replace_newlines(Tail(s))

\* d.strftime("%Y%m%d")
fmtdate(d) == LET t == ord2ymd(d) IN Dec(t[1], 4) \o Dec(t[2], 2) \o Dec(t[3], 2)

\* mutant: the event ends on the day it starts
vevent_same_day(d, clean) ==
    [DTSTART     |-> fmtdate(d),
     DTEND       |-> fmtdate(d),
     SUMMARY     |-> "Matsedel",
     DESCRIPTION |-> replace_newlines(join(clean))]

\* the VEVENT block of one day (DTSTAMP and the hash-derived UID are left out)
vevent(d, clean) ==
    [DTSTART     |-> fmtdate(d),
     DTEND       |-> fmtdate(d + 1),
     SUMMARY     |-> "Matsedel",
     DESCRIPTION |-> replace_newlines(join(clean))]

\* the body of `for d, meals in daily_meals`
add_day(events, day) ==
    LET clean == clean_meals(day[2])
    IN IF clean = <<>> THEN events ELSE Append(events, vevent(day[1], clean))

RECURSIVE fold_days(_, _, _)
fold_days(events, dm, i) ==
    IF i > Len(dm) THEN events ELSE fold_days(add_day(events, dm[i]), dm, i + 1)

build_ics(name, dm) ==
    [calname |-> name, timezone |-> "Europe/Stockholm",
     events |-> fold_days(<<>>, dm, 1), closed |-> TRUE]

----------------------------------------------------------------------------
(* The rest of main *)

\* find_next_data(html): the page is what BeautifulSoup and json.loads make of
\* it: whether the script element exists, whether it has text, whether the
\* text is JSON, and the parsed value
find_next_data(page) ==
    IF ~page.tag \/ page.string = "" THEN None
    ELSE IF page.string = "invalid" THEN None
    ELSE page.json

NameFields == { <<"s","c","h","o","o","l">>, <<"k","i","t","c","h","e","n">>,
                <<"d","i","s","t","r","i","b","u","t","o","r">>,
                <<"t","i","t","l","e">>, <<"n","a","m","e">> }

\* the first "field": "value" of the serialised payload with a field of
\* NameFields and a value of 3 characters or more; <<>> if there is none
RECURSIVE first_name(_)
RECURSIVE first_name_dict(_, _)
RECURSIVE first_name_list(_, _)

first_name_dict(v, i) ==
    IF i > Len(v.k) THEN <<>>
    ELSE LET here == IF v.k[i] \in NameFields /\ v.c[i].t = "s" /\ Len(v.c[i].s) >= 3
                     THEN v.c[i].s ELSE first_name(v.c[i])
         IN IF here # <<>> THEN here ELSE first_name_dict(v, i + 1)

first_name_list(v, i) ==
    IF i > Len(v.c) THEN <<>>
    ELSE LET here == first_name(v.c[i])
         IN IF here # <<>> THEN here ELSE first_name_list(v, i + 1)

first_name(v) ==
    IF v.t = "d" THEN first_name_dict(v, 1)
    ELSE IF v.t = "l" THEN first_name_list(v, 1)
    ELSE <<>>

guess_name(data, default_name) ==
    IF default_name # <<>> THEN default_name
    ELSE IF first_name(data) # <<>> THEN first_name(data)
    ELSE <<"S","k","o","l","m","a","t","s","e","d","e","l">>

\* mutant: an entry dated on the first day of the period is left out
filter_week_open(ents, s, e) ==
    LET InWeek(x) == s < x[1] /\ x[1] <= e IN SelectSeq(ents, InWeek)

\* [(d, meals) for d, meals in entries if start <= d <= end]
filter_week(ents, s, e) ==
    LET InWeek(x) == s <= x[1] /\ x[1] <= e IN SelectSeq(ents, InWeek)

----------------------------------------------------------------------------
(* Values of the variables an operation does not use *)

NoUrl  == [scheme |-> "", netloc |-> "", path |-> "", params |-> "",
           query |-> <<>>, fragment |-> ""]
NoIcs  == [calname |-> <<>>, timezone |-> "", events |-> <<>>, closed |-> FALSE]
NoEnv  == [MATILDA_URL |-> NoUrl, argv1 |-> NoUrl, CAL_NAME |-> <<>>,
           FORCE_START |-> <<>>, FORCE_END |-> <<>>, disk |-> NoIcs]
NoHtml == [fetched |-> "no", tag |-> FALSE, string |-> "", json |-> None]

WeekIdle == today = NoDate /\ start = NoDate /\ end = NoDate
UrlIdle  == base_url = NoUrl /\ url = NoUrl
WalkIdle == next_data = None /\ found = <<>>
ExtrIdle == pos = 0 /\ entries = <<>> /\ merged = <<>> /\ daily = <<>>
IcsIdle  == daily_meals = <<>> /\ ics = NoIcs
MainIdle == /\ environ = NoEnv /\ html = NoHtml /\ exit_code = -1
            /\ out_file = NoIcs /\ cal_name = <<>>

----------------------------------------------------------------------------
(* target_week_bounds applied to every day of the window *)

InitWeek ==
    /\ pc = "week_begin"
    /\ today \in Days
    /\ start = NoDate /\ end = NoDate
    /\ UrlIdle /\ WalkIdle /\ ExtrIdle /\ IcsIdle /\ MainIdle

TargetWeekBounds ==
    /\ pc = "week_begin"
    /\ start' = target_week_bounds(today)[1]
    /\ end' = target_week_bounds(today)[2]
    /\ pc' = "week_done"
    /\ UNCHANGED <<today, urlVars, walkVars, extrVars, icsVars, mainVars>>

NextWeek == TargetWeekBounds

SpecWeek == InitWeek /\ [][NextWeek]_vars

\* days from Monday 2024-06-10 (the Monday of the documented examples), mod 7
DaysAfterMonday(d) == (d - ymd2ord(2024, 6, 10)) % 7

\* C3: for every today, target_week_bounds returns (start, end) with start a
\* Monday and end = start + 6; on a Saturday or Sunday start is the first
\* Monday strictly after today, otherwise the Monday on or before today
\* (2024-06-08 -> 2024-06-10..16, 2024-06-11 -> 2024-06-10..16).
C3_WeekBounds ==
    pc = "week_done" =>
        /\ DaysAfterMonday(start) = 0
        /\ end = start + 6
        /\ IF DaysAfterMonday(today) \in {5, 6}
           THEN today < start /\ start <= today + 7
           ELSE start <= today /\ today < start + 7
        /\ today = ymd2ord(2024, 6, 8) =>
               start = ymd2ord(2024, 6, 10) /\ end = ymd2ord(2024, 6, 16)
        /\ today = ymd2ord(2024, 6, 11) =>
               start = ymd2ord(2024, 6, 10) /\ end = ymd2ord(2024, 6, 16)

C3_Witness ==
    /\ pc = "week_done"
    /\ today = ymd2ord(2024, 6, 8)
    /\ isoformat(start) = <<"2","0","2","4","-","0","6","-","1","0">>

----------------------------------------------------------------------------
(* walk applied to every payload tree of a bounded shape *)

K_weekMenu == <<"w","e","e","k","M","e","n","u">>
K_data     == <<"d","a","t","a">>
WalkKeys   == {K_weekMenu, K_data}
Leaf       == Str(<<"x">>)

\* a value with at most one child, over the values T
Narrow(T) ==
    {Leaf, Arr(<<>>), Obj(<<>>, <<>>)}
        \cup {Arr(<<x>>) : x \in T}
        \cup {Obj(<<key>>, <<x>>) : key \in WalkKeys, x \in T}

\* a mapping or an array with two children, over the values T
Wide(T) ==
    {Arr(<<x, y>>) : x \in T, y \in T}
        \cup {Obj(<<K_weekMenu, K_data>>, <<x, y>>) : x \in T, y \in T}
        \cup {Obj(<<K_data, K_weekMenu>>, <<x, y>>) : x \in T, y \in T}

RECURSIVE Trees(_)
Trees(n) == IF n = 0 THEN {Leaf, Arr(<<>>)} ELSE Narrow(Trees(n - 1))

\* chains of MaxDepth + 1 levels, and roots with two children one level lower
RootTrees == Narrow(Trees(MaxDepth)) \cup Wide(Trees(MaxDepth - 1))

InitWalk ==
    /\ pc = "walk_begin"
    /\ next_data \in RootTrees
    /\ found = <<>>
    /\ WeekIdle /\ UrlIdle /\ ExtrIdle /\ IcsIdle /\ MainIdle

Walk ==
    /\ pc = "walk_begin"
    /\ found' = walk(next_data)
    /\ pc' = "walk_done"
    /\ UNCHANGED <<next_data, weekVars, urlVars, extrVars, icsVars, mainVars>>

NextWalk == Walk

SpecWalk == InitWalk /\ [][NextWalk]_vars

\* the paths (sequences of child positions) of a tree
RECURSIVE Paths(_)
Paths(v) ==
    {<<>>} \cup UNION { {<<i>> \o p : p \in Paths(v.c[i])} : i \in 1..Len(v.c) }

RECURSIVE NodeAt(_, _)
NodeAt(v, p) == IF p = <<>> THEN v ELSE NodeAt(v.c[Head(p)], Tail(p))

\* the name contains meal, menu, dish or course, whatever the letter case
NameSuggestsMenu(key) ==
    \E pat \in KeyPatterns : \E off \in 0..(Len(key) - Len(pat)) :
        \A j \in 1..Len(pat) : lowerChar(key[off + j]) = pat[j]

\* the value at p is an array held under a menu-like name of a mapping
MatchedAt(v, p) ==
    /\ p # <<>>
    /\ LET parent == NodeAt(v, SubSeq(p, 1, Len(p) - 1)) IN
         /\ parent.t = "d"
         /\ NameSuggestsMenu(parent.k[p[Len(p)]])
    /\ NodeAt(v, p).t = "l"

\* matched, and not inside a matched array
Reported(v) ==
    {p \in Paths(v) :
        /\ MatchedAt(v, p)
        /\ \A n \in 1..(Len(p) - 1) : ~MatchedAt(v, SubSeq(p, 1, n))}

\* p comes before q in depth-first order (neither is a prefix of the other)
Before(p, q) ==
    \E n \in 1..Len(p) :
        /\ n <= Len(q)
        /\ SubSeq(p, 1, n - 1) = SubSeq(q, 1, n - 1)
        /\ p[n] < q[n]

RECURSIVE InOrder(_)
InOrder(P) ==
    IF P = {} THEN <<>>
    ELSE LET p == CHOOSE p \in P : \A q \in P \ {p} : Before(p, q)
         IN <<p>> \o InOrder(P \ {p})

\* C10: walk returns, in depth-first order, exactly the arrays held under a
\* key containing meal, menu, dish or course (case-insensitively) that are
\* not inside an already matched array.
C10_WalkResult ==
    pc = "walk_done" =>
        LET ps == InOrder(Reported(next_data))
        IN found = [i \in 1..Len(ps) |-> NodeAt(next_data, ps[i])]

\* two arrays reported in order, the first of them holding a menu-like array
\* that is not reported
C10_Witness ==
    /\ pc = "walk_done"
    /\ Len(found) = 2
    /\ \E p \in Paths(next_data) : MatchedAt(next_data, p) /\ p \notin Reported(next_data)

----------------------------------------------------------------------------
(* add_week_query_to_week_url applied to source URLs with bounded queries *)

QueryNames  == {"startDate", "endDate", "displayMode", "distributorId"}
QueryValues == {<<>>, <<"1">>, <<"2">>}
QueryFields == {<<name, value>> : name \in QueryNames, value \in QueryValues}

RECURSIVE SeqsUpTo(_, _)
SeqsUpTo(S, n) ==
    IF n = 0 THEN {<<>>}
    ELSE LET shorter == SeqsUpTo(S, n - 1)
         IN shorter \cup {Append(q, x) : q \in shorter, x \in S}

SourceUrls ==
    {[scheme |-> "https", netloc |-> "menu.matildaplatform.com",
      path |-> "/sv/embed/", params |-> "", query |-> q, fragment |-> f] :
        q \in SeqsUpTo(QueryFields, MaxQuery), f \in {"", "week"}}

InitUrl ==
    /\ pc = "url_begin"
    /\ base_url \in SourceUrls
    /\ url = NoUrl
    /\ today = NoDate
    /\ start \in {ymd2ord(2024, 6, 10), ymd2ord(2024, 12, 30)}
    /\ end = start + 6
    /\ WalkIdle /\ ExtrIdle /\ IcsIdle /\ MainIdle

AddWeekQuery ==
    /\ pc = "url_begin"
    /\ url' = add_week_query_to_week_url(base_url, start, end)
    /\ pc' = "url_done"
    /\ UNCHANGED <<base_url, weekVars, walkVars, extrVars, icsVars, mainVars>>

NextUrl == AddWeekQuery

SpecUrl == InitUrl /\ [][NextUrl]_vars

\* the values of the fields called name, in the order of the query
RECURSIVE FieldValues(_, _)
FieldValues(q, name) ==
    IF q = <<>> THEN <<>>
    ELSE (IF Head(q)[1] = name THEN <<Head(q)[2]>> ELSE <<>>) \o FieldValues(Tail(q), name)

\* the query has exactly one field called name, and it is the ISO string of d
CarriesDate(q, name, d) ==
    LET v == FieldValues(q, name) IN Len(v) = 1 /\ Len(v[1]) = 10 /\ fromisoformat(v[1]) = d

\* C4: the returned URL carries startDate and endDate equal to the ISO
\* strings of start and end, and every other component and every other
\* query parameter of the source URL (repeated ones and ones with an empty
\* value included) is unchanged.
C4_OtherParametersPreserved ==
    pc = "url_done" =>
        /\ CarriesDate(url.query, "startDate", start)
        /\ CarriesDate(url.query, "endDate", end)
        /\ url.scheme = base_url.scheme /\ url.netloc = base_url.netloc
        /\ url.path = base_url.path /\ url.params = base_url.params
        /\ url.fragment = base_url.fragment
        /\ \A name \in QueryNames \ {"startDate", "endDate"} :
               FieldValues(url.query, name) = FieldValues(base_url.query, name)

----------------------------------------------------------------------------
(* extract_entries, item by item, on payloads of menu items *)

K_menu     == <<"m","e","n","u">>
T_FishSoup == <<"F","i","s","h"," ","s","o","u","p">>
T_fishsoup == <<"f","i","s","h"," ","s","o","u","p">>
T_FishWide == <<"F","i","s","h"," "," ","s","o","u","p">>
T_Rice     == <<" ","R","i","c","e"," ">>
T_Blank    == <<" "," ">>
T_Jun10    == <<"2","0","2","4","-","0","6","-","1","0">>
T_Jun10T   == T_Jun10 \o <<"T","0","8",":","0","0",":","0","0">>
T_Jun11    == <<"2","0","2","4","-","0","6","-","1","1">>
T_Jun12    == <<"2","0","2","4","-","0","6","-","1","2">>
T_Jun13    == <<"2","0","2","4","-","0","6","-","1","3">>
T_Month13  == <<"2","0","2","4","-","1","3","-","0","1">>
T_tisdag   == <<"t","i","s","d","a","g">>
T_10juni   == <<"1","0"," ","j","u","n","i"," ","2","0","2","4">>

\* elements of a meal container
MealElems ==
    {Str(t) : t \in {T_FishSoup, T_fishsoup, T_FishWide, T_Rice, T_Blank}}
        \cup {Obj(<<K_name>>, <<Str(t)>>) : t \in {T_FishSoup, T_fishsoup, <<>>}}
        \cup {Obj(<<K_description, K_name>>, <<Str(t1), Str(t2)>>) :
                 t1 \in {T_FishSoup, T_fishsoup, T_Rice, <<>>},
                 t2 \in {T_FishSoup, T_fishsoup, T_Rice, <<>>}}
        \cup {Obj(<<K_title>>, <<None>>), None}

\* items that differ in their meal texts
MealItems ==
    {Obj(<<K_date, K_meals>>, <<Str(T_Jun10), Arr(ml)>>) :
         ml \in SeqsUpTo(MealElems, MaxMeals)}
      \cup {Obj(<<K_date, K_items, K_dishes>>, <<Str(T_Jun10), Arr(<<e1>>), Arr(<<e2>>)>>) :
               e1 \in MealElems, e2 \in {Str(T_FishSoup), Str(T_Rice)}}
      \cup {Obj(<<K_date, K_meals, K_text, K_name>>,
                <<Str(T_Jun10), Str(T_Rice), Str(t1), Str(t2)>>) :
               t1 \in {T_FishSoup, T_Blank}, t2 \in {T_FishSoup, T_fishsoup, <<>>}}

\* a mapping of the fields whose value is not Absent
Absent == [t |-> "a", k |-> <<>>, c |-> <<>>, s |-> <<>>]
RECURSIVE ObjOf(_, _)
ObjOf(ks, vs) ==
    IF ks = <<>> THEN Obj(<<>>, <<>>)
    ELSE LET rest == ObjOf(Tail(ks), Tail(vs))
         IN IF Head(vs) = Absent THEN rest
            ELSE Obj(<<Head(ks)>> \o rest.k, <<Head(vs)>> \o rest.c)

\* items that differ in their date fields (written in the reverse of the
\* order the extractor tries them in)
DateItems ==
    {ObjOf(<<K_name, K_menuDate, K_servedDate, K_day, K_date>>,
           <<Str(T_FishSoup), v4, v3, v2, v1>>) :
        v1 \in {Absent, None, Str(<<>>), Str(T_Jun10), Str(T_Jun10T), Str(T_10juni)},
        v2 \in {Absent, Str(T_Jun11), Str(T_tisdag)},
        v3 \in {Absent, Str(T_Jun12)},
        v4 \in {Absent, Str(T_Jun13), Str(T_Month13)}}

\* items of the arrays of two items
PairItems ==
    {Obj(<<K_date, K_meals>>, <<Str(d), Arr(<<Str(t)>>)>>) :
         d \in {T_Jun10, T_Jun11, T_tisdag},
         t \in {T_FishSoup, T_fishsoup, T_FishWide}}
      \cup {Leaf, Obj(<<K_date>>, <<Str(T_Jun10)>>)}

ItemPayloads ==
    {Obj(<<K_menu>>, <<Arr(<<it>>)>>) : it \in MealItems \cup DateItems}
      \cup {Obj(<<K_menu>>, <<Arr(<<a, b>>)>>) : a \in PairItems, b \in PairItems}
      \cup {Obj(<<K_weekMenu, K_dishes>>, <<Arr(<<a>>), Arr(<<b>>)>>) :
               a \in PairItems, b \in PairItems}

InitExtract ==
    /\ pc = "ex_begin"
    /\ next_data \in ItemPayloads
    /\ found = <<>>
    /\ ExtrIdle
    /\ WeekIdle /\ UrlIdle /\ IcsIdle /\ MainIdle

\* meal_lists = walk(next_data)
ExWalk ==
    /\ pc = "ex_begin"
    /\ found' = walk(next_data)
    /\ pos' = 1
    /\ pc' = "ex_items"
    /\ UNCHANGED <<next_data, entries, merged, daily, weekVars, urlVars, icsVars, mainVars>>

\* one turn of `for lst in meal_lists: for item in lst`
ExItem ==
    /\ pc = "ex_items"
    /\ pos <= Len(all_items(found))
    /\ entries' = item_entry(entries, all_items(found)[pos])
    /\ pos' = pos + 1
    /\ UNCHANGED <<pc, walkVars, merged, daily, weekVars, urlVars, icsVars, mainVars>>

ExItemsDone ==
    /\ pc = "ex_items"
    /\ pos > Len(all_items(found))
    /\ pos' = 1
    /\ pc' = "ex_merge"
    /\ UNCHANGED <<walkVars, entries, merged, daily, weekVars, urlVars, icsVars, mainVars>>

\* one turn of `for d, lst in entries`
ExMerge ==
    /\ pc = "ex_merge"
    /\ pos <= Len(entries)
    /\ merged' = merge_entry(merged, entries[pos])
    /\ pos' = pos + 1
    /\ UNCHANGED <<pc, walkVars, entries, daily, weekVars, urlVars, icsVars, mainVars>>

\* return sorted(merged.items(), ...)
ExReturn ==
    /\ pc = "ex_merge"
    /\ pos > Len(entries)
    /\ daily' = sorted_by_date(merged)
    /\ pc' = "ex_done"
    /\ UNCHANGED <<pos, walkVars, entries, merged, weekVars, urlVars, icsVars, mainVars>>

NextExtract == ExWalk \/ ExItem \/ ExItemsDone \/ ExMerge \/ ExReturn

SpecExtract == InitExtract /\ [][NextExtract]_vars

----------------------------------------------------------------------------
(* Properties of extract_entries *)

RECURSIVE Flatten(_)
Flatten(ss) == IF ss = <<>> THEN <<>> ELSE Head(ss) \o Flatten(Tail(ss))

\* s without the repetitions of an earlier element
RECURSIVE FirstSeen(_)
FirstSeen(s) ==
    IF s = <<>> THEN <<>>
    ELSE LET r == FirstSeen(SubSeq(s, 1, Len(s) - 1))
         IN IF InList(s[Len(s)], r) THEN r ELSE Append(r, s[Len(s)])

NonEmptyText(x) == x # <<>>
HasDateAndText(e) == e[1] # NoDate /\ e[2] # <<>>

\* the (date, texts) of the mappings among items that have both, in order
ExpectedEntries(items, D(_), T(_)) ==
    SelectSeq([i \in 1..Len(items) |->
                  IF items[i].t = "d" THEN <<D(items[i]), T(items[i])>>
                  ELSE <<NoDate, <<>>>>],
              HasDateAndText)

\* the items processed so far
Processed ==
    IF pc = "ex_items" THEN SubSeq(all_items(found), 1, pos - 1) ELSE all_items(found)

\* the leading 10 characters of the field parse as a date
ParsedField(item, dk) ==
    IF Has(item, dk) THEN fromisoformat(Prefix(py_str(Get(item, dk)), 10)) ELSE NoDate

\* the date of the first of date, day, servedDate, menuDate that parses
ClaimDate(item) ==
    LET order == <<K_date, K_day, K_servedDate, K_menuDate>>
        ok    == {i \in 1..4 : ParsedField(item, order[i]) # NoDate}
    IN IF ok = {} THEN NoDate
       ELSE ParsedField(item, order[CHOOSE i \in ok : \A j \in ok : i <= j])

\* C6: an item's date is that of the first field, in the order date, day,
\* servedDate, menuDate, that is present and whose leading 10 characters
\* parse as an ISO date; an item with no such field contributes no entry
\* and the items after it are still extracted.
C6_DateResolution ==
    pc \in {"ex_items", "ex_merge", "ex_done"} =>
        entries = ExpectedEntries(Processed, ClaimDate, item_texts)

\* an item whose date field is present and unparsable got the date of a
\* later field
C6_Witness ==
    /\ pc = "ex_merge"
    /\ entries # <<>>
    /\ \E i \in 1..Len(all_items(found)) :
          LET item == all_items(found)[i] IN
            /\ item.t = "d" /\ Has(item, K_date) /\ Has(item, K_menuDate)
            /\ ParsedField(item, K_date) = NoDate
            /\ entries[1][1] = ParsedField(item, K_menuDate)

\* the trimmed text of a string value; nothing for null
TextOf(v) == IF v.t = "s" THEN strip(v.s) ELSE <<>>

\* the non-empty texts of the fields keys of m, in the order of keys
FieldTexts(m, keys) ==
    SelectSeq([i \in 1..Len(keys) |-> IF Has(m, keys[i]) THEN TextOf(Get(m, keys[i])) ELSE <<>>],
              NonEmptyText)

SubFieldOrder ==
    <<K_name, K_title, K_dishName, K_courseName, K_label, K_description, K_text>>

\* what one element of a meal container offers: every sub-field / the first
ElemEvery(m) ==
    IF m.t = "d" THEN FieldTexts(m, SubFieldOrder)
    ELSE IF m.t = "s" THEN SelectSeq(<<strip(m.s)>>, NonEmptyText)
    ELSE <<>>

ElemFirst(m) ==
    LET every == ElemEvery(m)
    IN IF m.t = "d" /\ every # <<>> THEN <<every[1]>> ELSE every

\* the text list of an item when each element offers E(element)
TextsWith(item, E(_)) ==
    LET order == <<K_meals, K_dishes, K_courses, K_menuRows, K_items>>
        of(mk) == IF Has(item, mk) /\ Get(item, mk).t = "l"
                  THEN Flatten([j \in 1..Len(Get(item, mk).c) |-> E(Get(item, mk).c[j])])
                  ELSE <<>>
    IN FirstSeen(Flatten([i \in 1..5 |-> of(order[i])])
                 \o FieldTexts(item, <<K_name, K_title, K_label, K_description, K_text>>))

TextsFirstOnly(item) == TextsWith(item, ElemFirst)
TextsEvery(item)     == TextsWith(item, ElemEvery)

\* C9 as stated: a mapping element of a meal container contributes exactly
\* one string, the first non-empty of name, title, dishName, courseName,
\* label, description, text; lower-priority sub-fields are not appended.
C9_FirstSubFieldOnly ==
    pc \in {"ex_items", "ex_merge", "ex_done"} =>
        entries = ExpectedEntries(Processed, item_date, TextsFirstOnly)

\* C9 amended: a mapping element of a meal container contributes every
\* non-empty sub-field among name, title, dishName, courseName, label,
\* description, text, in that order, each unless already in the text list.
C9_EverySubField ==
    pc \in {"ex_items", "ex_merge", "ex_done"} =>
        entries = ExpectedEntries(Processed, item_date, TextsEvery)

\* an element with two different non-empty sub-fields gave two texts
C9_Witness ==
    /\ pc = "ex_merge"
    /\ Len(all_items(found)) = 1
    /\ LET item == all_items(found)[1] IN
         /\ item.t = "d" /\ Has(item, K_meals) /\ Get(item, K_meals).t = "l"
         /\ Len(Get(item, K_meals).c) = 1
         /\ Len(ElemEvery(Get(item, K_meals).c[1])) = 2
         /\ Len(entries) = 1 /\ Len(entries[1][2]) = 2

\* the normalised texts extracted for the date d, in processing order
TextsOfDate(d) ==
    Flatten([i \in 1..Len(entries) |->
                IF entries[i][1] = d
                THEN [j \in 1..Len(entries[i][2]) |-> collapse_ws(entries[i][2][j])]
                ELSE <<>>])

ExamplePayload ==
    Obj(<<K_menu>>,
        <<Arr(<<Obj(<<K_date, K_meals>>,
                    <<Str(T_Jun10), Arr(<<Obj(<<K_name>>, <<Str(T_FishSoup)>>),
                                          Obj(<<K_name>>, <<Str(T_fishsoup)>>)>>)>>)>>)>>)

----------------------------------------------------------------------------
(* build_ics, day by day, on menus of up to two days *)

T_RiceBare == <<"R","i","c","e">>
T_Gustavlund == <<"G","u","s","t","a","v","l","u","n","d">>
MealTexts  == {T_FishSoup, T_fishsoup, T_Rice, T_RiceBare, T_Blank}
MealLists  == SeqsUpTo(MealTexts, MaxMeals)
Jun10      == ymd2ord(2024, 6, 10)
Jun30      == ymd2ord(2024, 6, 30)

DailyMenus ==
    {<<>>}
      \cup {<< <<d, ml>> >> : d \in {Jun10, Jun30}, ml \in MealLists}
      \cup {<< <<Jun10, m1>>, <<Jun30, m2>> >> : m1 \in MealLists, m2 \in MealLists}

InitIcs ==
    /\ pc = "ics_begin"
    /\ daily_meals \in DailyMenus
    /\ ics = NoIcs
    /\ cal_name = T_Gustavlund
    /\ environ = NoEnv /\ html = NoHtml /\ exit_code = -1 /\ out_file = NoIcs
    /\ WeekIdle /\ UrlIdle /\ WalkIdle /\ ExtrIdle

\* the header lines
IcsHeader ==
    /\ pc = "ics_begin"
    /\ ics' = [calname |-> cal_name, timezone |-> "Europe/Stockholm",
               events |-> <<>>, closed |-> FALSE]
    /\ pos' = 1
    /\ pc' = "ics_days"
    /\ UNCHANGED <<daily_meals, entries, merged, daily, weekVars, urlVars, walkVars, mainVars>>

\* one turn of `for d, meals in daily_meals`
IcsDay ==
    /\ pc = "ics_days"
    /\ pos <= Len(daily_meals)
    /\ ics' = [ics EXCEPT !.events = add_day(ics.events, daily_meals[pos])]
    /\ pos' = pos + 1
    /\ UNCHANGED <<pc, daily_meals, entries, merged, daily, weekVars, urlVars, walkVars, mainVars>>

\* END:VCALENDAR
IcsFooter ==
    /\ pc = "ics_days"
    /\ pos > Len(daily_meals)
    /\ ics' = [ics EXCEPT !.closed = TRUE]
    /\ pc' = "ics_done"
    /\ UNCHANGED <<pos, daily_meals, entries, merged, daily, weekVars, urlVars, walkVars, mainVars>>

NextIcs == IcsHeader \/ IcsDay \/ IcsFooter

SpecIcs == InitIcs /\ [][NextIcs]_vars

\* the pieces of a DESCRIPTION between the \n escapes
RECURSIVE Pieces(_, _)
Pieces(s, cur) ==
    IF s = <<>> THEN <<cur>>
    ELSE IF Len(s) >= 2 /\ s[1] = "\\" /\ s[2] = "n"
         THEN <<cur>> \o Pieces(SubSeq(s, 3, Len(s)), <<>>)
         ELSE Pieces(Tail(s), Append(cur, Head(s)))

\* the same text, whatever the letter case and the surrounding blanks
SameMeal(a, b) ==
    LET x == strip(a)
        y == strip(b)
    IN Len(x) = Len(y) /\ \A i \in 1..Len(x) : lowerChar(x[i]) = lowerChar(y[i])

\* C5: the DESCRIPTION rendered for a day never holds two meal strings that
\* are equal when compared case-insensitively after trimming, whether or not
\* the DayEntry held such duplicates.
C5_NoDuplicateInDescription ==
    pc \in {"ics_days", "ics_done"} =>
        \A n \in 1..Len(ics.events) :
            LET parts == Pieces(ics.events[n].DESCRIPTION, <<>>)
            IN \A i, j \in 1..Len(parts) : i < j => ~SameMeal(parts[i], parts[j])

\* a day that held the same meal in two spellings was rendered with one
C5_Witness ==
    /\ pc = "ics_done"
    /\ Len(daily_meals) = 1
    /\ Len(daily_meals[1][2]) = 2
    /\ daily_meals[1][2][1] # daily_meals[1][2][2]
    /\ SameMeal(daily_meals[1][2][1], daily_meals[1][2][2])
    /\ Len(ics.events) = 1
    /\ Len(Pieces(ics.events[1].DESCRIPTION, <<>>)) = 1

\* the day has a meal that is not blank
HasMeal(day) ==
    \E i \in 1..Len(day[2]) : \E j \in 1..Len(day[2][i]) : ~IsSpace(day[2][i][j])

\* the date written as YYYYMMDD
BasicDate(s) ==
    IF Len(s) = 8
    THEN fromisoformat(SubSeq(s, 1, 4) \o <<"-">> \o SubSeq(s, 5, 6) \o <<"-">> \o SubSeq(s, 7, 8))
    ELSE NoDate

\* C8: build_ics emits exactly one VEVENT per day whose cleaned meal list is
\* not empty (none for an empty menu), in input order, with DTSTART the day
\* and DTEND the next calendar date.
C8_OneEventPerDay ==
    pc = "ics_done" =>
        LET kept == SelectSeq(daily_meals, HasMeal) IN
          /\ ics.closed
          /\ Len(ics.events) = Len(kept)
          /\ \A n \in 1..Len(kept) :
                /\ BasicDate(ics.events[n].DTSTART) = kept[n][1]
                /\ BasicDate(ics.events[n].DTEND) = kept[n][1] + 1
                /\ kept[n][1] = Jun30 =>
                      ics.events[n].DTEND = <<"2","0","2","4","0","7","0","1">>

\* of two days, only the second (2024-06-30) has meals and is rendered
C8_Witness ==
    /\ pc = "ics_done"
    /\ Len(daily_meals) = 2
    /\ ~HasMeal(daily_meals[1]) /\ daily_meals[1][2] # <<>>
    /\ Len(ics.events) = 1
    /\ ics.events[1].DTSTART = <<"2","0","2","4","0","6","3","0">>

----------------------------------------------------------------------------
(* main: one run of the program *)

T_Jun17 == <<"2","0","2","4","-","0","6","-","1","7">>

EmbedUrl ==
    [scheme |-> "https", netloc |-> "menu.matildaplatform.com", path |-> "/sv/embed/",
     params |-> "", query |-> << <<"displayMode", <<"1">>>>, <<"startDate", <<"2">>>> >>,
     fragment |-> ""]
WeekUrl ==
    [scheme |-> "https", netloc |-> "menu.matildaplatform.com", path |-> "/meals/week/",
     params |-> "", query |-> <<>>, fragment |-> ""]

\* a week page: meals on Monday 10, Wednesday 12 and Monday 17 June 2024
WeekPayload ==
    Obj(<<K_data, K_weekMenu>>,
        <<Obj(<<K_title>>, <<Str(<<"G","L">>)>>),
          Arr(<<Obj(<<K_date, K_meals>>,
                    <<Str(T_Jun10T), Arr(<<Str(T_FishSoup), Str(T_fishsoup)>>)>>),
                Obj(<<K_day, K_name>>, <<Str(T_Jun12), Str(T_Rice)>>),
                Obj(<<K_date, K_meals>>, <<Str(T_Jun17), Arr(<<Str(T_FishWide)>>)>>)>>)>>)

NoMenuPayload == Obj(<<K_data>>, <<Obj(<<K_title>>, <<Str(T_Gustavlund)>>)>>)

Payloads == {Obj(<<>>, <<>>), None, NoMenuPayload, ExamplePayload, WeekPayload}

Pages ==
    {[fetched |-> "ok", tag |-> FALSE, string |-> "", json |-> None],
     [fetched |-> "ok", tag |-> TRUE, string |-> "", json |-> None],
     [fetched |-> "ok", tag |-> TRUE, string |-> "invalid", json |-> None]}
      \cup {[fetched |-> "ok", tag |-> TRUE, string |-> "valid", json |-> v] : v \in Payloads}

OldIcs == [calname |-> T_Gustavlund, timezone |-> "Europe/Stockholm",
           events |-> <<>>, closed |-> TRUE]

Environments ==
    [MATILDA_URL : {NoUrl, EmbedUrl},
     argv1       : {NoUrl, WeekUrl},
     CAL_NAME    : {<<>>, T_Gustavlund},
     FORCE_START : {<<>>, T_Jun10, T_Jun12, T_tisdag},
     FORCE_END   : {<<>>, T_Jun12, T_Jun17},
     disk        : {NoIcs, OldIcs}]

\* Friday 7, Saturday 8, Tuesday 11 and Sunday 16 June 2024
Todays == {ymd2ord(2024, 6, 7), ymd2ord(2024, 6, 8), ymd2ord(2024, 6, 11),
           ymd2ord(2024, 6, 16)}

Init ==
    /\ pc = "main_begin"
    /\ environ \in Environments
    /\ today \in Todays
    /\ out_file = environ.disk
    /\ html = NoHtml /\ exit_code = -1 /\ cal_name = <<>>
    /\ start = NoDate /\ end = NoDate
    /\ UrlIdle /\ WalkIdle /\ ExtrIdle /\ IcsIdle

\* MATILDA_URL or argv[1]
ConfiguredUrl ==
    IF environ.MATILDA_URL # NoUrl THEN environ.MATILDA_URL ELSE environ.argv1

Forced == environ.FORCE_START # <<>> /\ environ.FORCE_END # <<>>

Exit(code) == exit_code' = code /\ pc' = "exited"

\* no URL: sys.exit(2)
MainNoUrl ==
    /\ pc = "main_begin"
    /\ ConfiguredUrl = NoUrl
    /\ Exit(2)
    /\ UNCHANGED <<weekVars, urlVars, walkVars, extrVars, icsVars,
                   environ, html, out_file, cal_name>>

MainHaveUrl ==
    /\ pc = "main_begin"
    /\ ConfiguredUrl # NoUrl
    /\ base_url' = ConfiguredUrl
    /\ pc' = "main_week"
    /\ UNCHANGED <<weekVars, url, walkVars, extrVars, icsVars, mainVars>>

\* FORCE_START and FORCE_END both set and both ISO dates
MainForcedWeek ==
    /\ pc = "main_week"
    /\ Forced
    /\ fromisoformat(environ.FORCE_START) # NoDate
    /\ fromisoformat(environ.FORCE_END) # NoDate
    /\ start' = fromisoformat(environ.FORCE_START)
    /\ end' = fromisoformat(environ.FORCE_END)
    /\ pc' = "main_fetch"
    /\ UNCHANGED <<today, urlVars, walkVars, extrVars, icsVars, mainVars>>

\* date.fromisoformat raises ValueError, which nothing catches: exit status 1
MainForcedWeekInvalid ==
    /\ pc = "main_week"
    /\ Forced
    /\ \/ fromisoformat(environ.FORCE_START) = NoDate
       \/ fromisoformat(environ.FORCE_END) = NoDate
    /\ Exit(1)
    /\ UNCHANGED <<weekVars, urlVars, walkVars, extrVars, icsVars,
                   environ, html, out_file, cal_name>>

MainAutoWeek ==
    /\ pc = "main_week"
    /\ ~Forced
    /\ start' = target_week_bounds(today)[1]
    /\ end' = target_week_bounds(today)[2]
    /\ pc' = "main_fetch"
    /\ UNCHANGED <<today, urlVars, walkVars, extrVars, icsVars, mainVars>>

\* fetch_html raises: sys.exit(3); html.fetched records how the fetch ended
MainFetchFails ==
    /\ pc = "main_fetch"
    /\ url' = add_week_query_to_week_url(base_url, start, end)
    /\ html' = [NoHtml EXCEPT !.fetched = "failed"]
    /\ Exit(3)
    /\ UNCHANGED <<weekVars, base_url, walkVars, extrVars, icsVars,
                   environ, out_file, cal_name>>

MainFetchOk ==
    /\ pc = "main_fetch"
    /\ url' = add_week_query_to_week_url(base_url, start, end)
    /\ html' \in Pages
    /\ pc' = "main_find"
    /\ UNCHANGED <<weekVars, base_url, walkVars, extrVars, icsVars,
                   environ, exit_code, out_file, cal_name>>

\* `if not data`: sys.exit(4)
MainNoData ==
    /\ pc = "main_find"
    /\ ~Truthy(find_next_data(html))
    /\ Exit(4)
    /\ UNCHANGED <<weekVars, urlVars, walkVars, extrVars, icsVars,
                   environ, html, out_file, cal_name>>

MainHaveData ==
    /\ pc = "main_find"
    /\ Truthy(find_next_data(html))
    /\ next_data' = find_next_data(html)
    /\ pc' = "main_extract"
    /\ UNCHANGED <<weekVars, urlVars, found, extrVars, icsVars, mainVars>>

\* entries = extract_entries(data)
MainExtract ==
    /\ pc = "main_extract"
    /\ daily' = extract_entries(next_data)
    /\ pc' = "main_filter"
    /\ UNCHANGED <<weekVars, urlVars, walkVars, pos, entries, merged, icsVars, mainVars>>

\* the entries of the chosen period
MainFilter ==
    /\ pc = "main_filter"
    /\ daily_meals' = filter_week(daily, start, end)
    /\ pc' = "main_write"
    /\ UNCHANGED <<weekVars, urlVars, walkVars, extrVars, ics, mainVars>>

\* guess_name, build_ics and the write of the output file
MainWrite ==
    /\ pc = "main_write"
    /\ cal_name' = guess_name(next_data, environ.CAL_NAME)
    /\ ics' = build_ics(cal_name', daily_meals)
    /\ out_file' = ics'
    /\ Exit(0)
    /\ UNCHANGED <<weekVars, urlVars, walkVars, extrVars, daily_meals, environ, html>>

Next ==
    \/ MainNoUrl \/ MainHaveUrl
    \/ MainForcedWeek \/ MainForcedWeekInvalid \/ MainAutoWeek
    \/ MainFetchFails \/ MainFetchOk
    \/ MainNoData \/ MainHaveData
    \/ MainExtract \/ MainFilter \/ MainWrite

Spec == Init /\ [][Next]_vars

\* C2: a run writes the output file and exits 0 exactly when a URL is
\* configured, the fetch succeeds and the page holds the script element with
\* syntactically valid JSON (a payload without menu entries included);
\* a missing URL, a failed fetch and missing or unparsable data each end
\* the run with an exit code of their own, and a run that does not exit 0
\* leaves the output file as it was.
C2_ExitCodes ==
    pc = "exited" =>
        LET configured == environ.MATILDA_URL # NoUrl \/ environ.argv1 # NoUrl
            valid      == html.fetched = "ok" /\ html.tag /\ html.string = "valid"
        IN /\ (exit_code = 0 /\ out_file = ics /\ ics.closed)
                  <=> (configured /\ valid)
           /\ ~configured => exit_code = 2
           /\ html.fetched = "failed" => exit_code = 3
           /\ html.fetched = "ok" /\ ~valid => exit_code = 4
           /\ exit_code # 0 => out_file = environ.disk

\* C7: with FORCE_START and FORCE_END both given, they are the period; every
\* entry passed to build_ics, and every rendered event, is dated within
\* start..end, and every extracted entry dated within start..end is kept.
C7_ForcedPeriodFilter ==
    pc \in {"main_write", "exited"} /\ exit_code \in {-1, 0} =>
        /\ Forced => /\ Len(environ.FORCE_START) = 10
                     /\ start = fromisoformat(environ.FORCE_START)
                     /\ Len(environ.FORCE_END) = 10
                     /\ end = fromisoformat(environ.FORCE_END)
        /\ \A i \in 1..Len(daily_meals) :
              start <= daily_meals[i][1] /\ daily_meals[i][1] <= end
        /\ \A i \in 1..Len(daily) :
              (start <= daily[i][1] /\ daily[i][1] <= end)
                  => \E j \in 1..Len(daily_meals) : daily_meals[j] = daily[i]
        /\ \A n \in 1..Len(ics.events) :
              /\ start <= BasicDate(ics.events[n].DTSTART)
              /\ BasicDate(ics.events[n].DTSTART) <= end

\* a forced period that keeps the entry of its first day and drops another
C7_Witness ==
    /\ pc = "exited" /\ exit_code = 0
    /\ Forced
    /\ start # target_week_bounds(today)[1]
    /\ Len(daily) = 3 /\ Len(daily_meals) = 2
    /\ daily_meals[1][1] = start
    /\ Len(ics.events) = 2

====
